---------------------------- MODULE Spec2Model ----------------------------
(***************************************************************************)
(* ThaiLawOnline chatbot backend: the retrieval merge layer                *)
(* (backend/rag/retriever.py, vortex_client.py, notion_client.py), the     *)
(* prompt composer (backend/rag/prompts.py) and the four chat endpoints of *)
(* backend/main.py driving the three-stage council.                        *)
(*                                                                         *)
(* Four specifications share the module:                                   *)
(*   SpecSearch    unit calls of _search_json_files on a corpus            *)
(*   SpecRetrieve  one retrieve_context call: two adapter tasks, gather    *)
(*   SpecPrompt    build_system_prompt on a chunk sequence                 *)
(*   SpecAggregate calculate_aggregate_rankings on Stage 2 rankings        *)
(*   Spec          the chat endpoints and their event streams              *)
(***************************************************************************)
EXTENDS Integers, Sequences, FiniteSets, TLC

VARIABLES
    \* ---- retrieval layer
    cfg,          \* backend/config.py values read by the adapters
    corpus,       \* VORTEX_JSON_DIR: whether it exists, and its *.json files in glob order
    rpc,          \* retrieve_context: "idle" | "gather" | "returned" | "raised"
    rq,           \* the query of the running retrieve_context call
    vortex_task,  \* the search_vortex awaitable handed to asyncio.gather
    notion_task,  \* the search_notion awaitable handed to asyncio.gather
    all_chunks,   \* what retrieve_context returned
    unit,         \* the last direct call of an adapter function and what it gave
    completed,        \* the gather tasks that have finished, in completion order
    \* ---- prompt composer
    context_chunks,   \* build_system_prompt's argument
    prompt,           \* what build_system_prompt returned (<<>> before the call)
    \* ---- rank aggregation
    stage2_results,   \* calculate_aggregate_rankings' first argument
    label_to_model,   \* its second argument
    aggregate,        \* what it returned, [done |-> FALSE] before the call
    \* ---- one request on a chat endpoint (backend/main.py)
    ep,           \* the endpoint serving the request, "none" before it arrives
    req,          \* the request: message text, and whether its X-API-Key is valid
    pc,           \* where the handler (or its event_generator) stands
    cpc,          \* where run_full_council stands
    response,     \* the HTTP answer: a status, or "stream" for a StreamingResponse
    events,       \* the events yielded on the stream so far
    messages,     \* the conversation's message log (roles)
    conv,         \* whether the conversation exists in the store
    store_ops,    \* the storage calls the request has made
    rag,          \* retrieve_and_build_messages: idle | running | done | raised
    st1,          \* stage1_collect_responses: idle | running | done
    s1,           \* Stage 1 request per worker: idle | running | ok | error
    st2,          \* stage2_collect_rankings: idle | running | done
    s2,           \* Stage 2 request per judge: idle | running | ok | malformed
    s3,           \* stage3_synthesize_final: idle | running | ok | failed
    title_task,        \* generate_conversation_title: none | running | ok | failed
    is_first,     \* is_first_message
    call_args     \* the arguments each stage function was called with

rvars == <<cfg, corpus, rpc, rq, vortex_task, notion_task, all_chunks, unit, completed>>
prvars == <<context_chunks, prompt>>
avars == <<stage2_results, label_to_model, aggregate>>

pvars == <<ep, req, pc, cpc, response, events, messages, conv, store_ops,
           rag, st1, s1, st2, s2, s3, title_task, is_first, call_args>>

vars == <<rvars, prvars, avars, pvars>>

\* ------------------------------------------------------------------ bounds
MaxFiles == 2       \* files in the corpus directory
MaxQueryLen == 2    \* tokens in a query
MaxResults == 3     \* largest max_results argument of a direct adapter call
MaxPromptChunks == 3    \* chunks handed to build_system_prompt
NumWorkers == 3     \* worker models of the roster (COUNCIL_MODELS)
MaxJudges == 2      \* Stage 2 rankings handed to the aggregation
MaxMsgLen == 2      \* characters in a request's message

\* ------------------------------------------------------------- small helpers
Min(a, b) == IF a <= b THEN a ELSE b

SeqsUpTo(S, n) == UNION {[1..k -> S] : k \in 0..n}

\* Python's s[:n] for n >= 0
Take(s, n) == SubSeq(s, 1, Min(n, Len(s)))

\* a Python call either returns a value or raises
Returned(v) == [ok |-> TRUE, val |-> v]
Raises == [ok |-> FALSE, val |-> <<>>]

\* --------------------------------------------------------------------- text
\* A text is a sequence of space-separated tokens: words (with case) and "-",
\* a punctuation token that \w+ does not match.
Words == {"alpha", "Alpha", "beta", "gamma", "Gamma", "zzz"}
Tokens == Words \cup {"-"}

\* str.lower()
Lower(w) ==
    CASE w = "Alpha" -> "alpha"
      [] w = "Gamma" -> "gamma"
      [] OTHER -> w

\* set(re.findall(r"\w+", text.lower()))
Tokenize(text) == {Lower(text[i]) : i \in {j \in 1..Len(text) : text[j] \in Words}}

\* ------------------------------------------------------------------- corpus
\* A JSON value found where a chunk is expected: an object, or something else
\* (a number, a string).  An object's "content" and "source" may be absent,
\* and "content" may be a non-string truthy value (a number).
NoKey == [t |-> "missing", v |-> <<>>]
Str(text) == [t |-> "str", v |-> text]
Num == [t |-> "num", v |-> <<>>]
Dict(c, s) == [isdict |-> TRUE, content |-> c, source |-> s]
NonDict == [isdict |-> FALSE, content |-> NoKey, source |-> NoKey]

R_ab == Dict(Str(<<"alpha", "beta">>), Str("Doc1"))
R_Ag == Dict(Str(<<"Alpha", "-", "gamma">>), Str("Doc2"))
R_a == Dict(Str(<<"alpha">>), NoKey)
R_b == Dict(Str(<<"beta", "zzz">>), Str("Doc5"))
R_empty == Dict(Str(<<>>), Str("Doc3"))
R_nocontent == Dict(NoKey, Str("Doc3"))
R_num == Dict(Num, Str("Doc4"))

\* A file of the directory: unreadable (OSError), not JSON (JSONDecodeError),
\* one JSON value, or a JSON array of values.
OSErrFile == [kind |-> "oserror", stem |-> "f0", data |-> <<>>]
BadJsonFile == [kind |-> "badjson", stem |-> "f1", data |-> <<>>]
ObjFile(stem, r) == [kind |-> "obj", stem |-> stem, data |-> r]
ListFile(stem, rs) == [kind |-> "list", stem |-> stem, data |-> rs]

FileShapes ==
    { OSErrFile, BadJsonFile,
      ObjFile("f2", R_ab),
      ListFile("f3", <<R_ab, R_Ag>>),
      ListFile("f4", <<R_a, R_empty, R_b>>),
      ListFile("f5", <<R_nocontent, R_Ag, R_a>>),
      ListFile("f6", <<R_Ag, NonDict>>),
      ObjFile("f7", R_num) }

Corpora ==
    {[exists |-> FALSE, files |-> <<>>]}
    \cup {[exists |-> TRUE, files |-> fs] : fs \in SeqsUpTo(FileShapes, MaxFiles)}

Queries == SeqsUpTo({"alpha", "Gamma", "zzz", "-"}, MaxQueryLen)

\* ---------------------------------------------------- _search_json_files
\* A score overlap / len(query_tokens) is kept as the pair <<overlap, len>>.
ScoreGE(a, b) == a[1] * b[2] >= b[1] * a[2]

\* list.sort(key=score, reverse=True) is stable: an element goes after every
\* element whose score is at least its own.
\* (mutant) a sort that is not stable: an element goes before its equals
RECURSIVE InsertDescUnstable(_, _)
InsertDescUnstable(sorted, x) ==
    IF sorted = <<>> THEN <<x>>
    ELSE IF ScoreGE(Head(sorted).score, x.score) /\ ~ScoreGE(x.score, Head(sorted).score)
         THEN <<Head(sorted)>> \o InsertDescUnstable(Tail(sorted), x)
         ELSE <<x>> \o sorted

RECURSIVE InsertDesc(_, _)
InsertDesc(sorted, x) ==
    IF sorted = <<>> THEN <<x>>
    ELSE IF ScoreGE(Head(sorted).score, x.score)
         THEN <<Head(sorted)>> \o InsertDesc(Tail(sorted), x)
         ELSE <<x>> \o sorted

RECURSIVE SortDescStable(_)
SortDescStable(s) ==
    IF s = <<>> THEN <<>>
    ELSE InsertDesc(SortDescStable(SubSeq(s, 1, Len(s) - 1)), s[Len(s)])

\* json.load's value normalised to a list of chunks
NormalizeChunks(file) == IF file.kind = "list" THEN file.data ELSE <<file.data>>

\* The body of "for chunk in chunks": what one chunk adds to scored_chunks, or
\* the exception it raises (chunk.get on a non-object, content.lower() on a
\* non-string: AttributeError, which the except clause does not name).
ScoreChunk(chunk, stem, query_tokens) ==
    IF ~chunk.isdict THEN Raises
    ELSE IF chunk.content.t = "missing" THEN Returned(<<>>)
    ELSE IF chunk.content.t = "num" THEN Raises
    ELSE IF chunk.content.v = <<>> THEN Returned(<<>>)
    ELSE LET content_tokens == Tokenize(chunk.content.v)
             overlap == Cardinality(query_tokens \cap content_tokens)
         IN  IF overlap > 0
             THEN Returned(<< [content |-> chunk.content.v,
                               source |-> IF chunk.source.t = "missing"
                                          THEN stem ELSE chunk.source.v,
                               score |-> <<overlap, Cardinality(query_tokens)>>] >>)
             ELSE Returned(<<>>)

RECURSIVE ScanChunks(_, _, _, _)
ScanChunks(chunks, stem, query_tokens, acc) ==
    IF chunks = <<>> THEN Returned(acc)
    ELSE LET one == ScoreChunk(Head(chunks), stem, query_tokens)
         IN  IF one.ok
             THEN ScanChunks(Tail(chunks), stem, query_tokens, acc \o one.val)
             ELSE Raises

RECURSIVE ScanFiles(_, _, _)
ScanFiles(files, query_tokens, acc) ==
    IF files = <<>> THEN Returned(acc)
    ELSE LET f == Head(files)
         IN  IF f.kind \in {"oserror", "badjson"}
             THEN ScanFiles(Tail(files), query_tokens, acc)
             ELSE LET got == ScanChunks(NormalizeChunks(f), f.stem, query_tokens, acc)
                  IN  IF got.ok
                      THEN ScanFiles(Tail(files), query_tokens, got.val)
                      ELSE Raises

search_json_files(dir, query, max_results) ==
    IF ~dir.exists THEN Returned(<<>>)
    ELSE LET query_tokens == Tokenize(query)
         IN  IF query_tokens = {} THEN Returned(<<>>)
             ELSE LET scored == ScanFiles(dir.files, query_tokens, <<>>)
                  IN  IF scored.ok
                      THEN Returned(Take(SortDescStable(scored.val), max_results))
                      ELSE Raises

\* ------------------------------------------------------------ search_mysql
\* What the process and the database can answer to one _search_mysql call:
\* aiomysql missing, a connection or query error, or the rows of the SELECT
\* (ordered by the engine, at most LIMIT of them; "source" may be NULL-less
\* absent from a row).
Row(c, s, sc) == [content |-> c, source |-> s, score |-> sc]

MysqlRowSets ==
    { <<>>,
      <<Row(<<"alpha", "beta">>, Str("CCC 420"), 7)>>,
      <<Row(<<"gamma">>, Str("CCC 420"), 9), Row(<<"alpha">>, NoKey, 4)>>,
      <<Row(<<"gamma">>, Str("SC 1/2565"), 9), Row(<<"alpha">>, NoKey, 4),
        Row(<<"beta">>, Str("CCC 5"), 1)>> }

MysqlOutcomes(max_results) ==
    {[kind |-> "import_error", rows |-> <<>>], [kind |-> "error", rows |-> <<>>]}
    \cup {[kind |-> "rows", rows |-> rs] :
              rs \in {r \in MysqlRowSets : Len(r) <= max_results}}

search_mysql(dir, outcome, query, max_results) ==
    IF outcome.kind = "import_error"
    THEN search_json_files(dir, query, max_results)
    ELSE IF outcome.kind = "error" THEN Returned(<<>>)
    ELSE Returned([i \in 1..Len(outcome.rows) |->
             [content |-> outcome.rows[i].content,
              source |-> IF outcome.rows[i].source.t = "missing"
                         THEN "Vortex DB" ELSE outcome.rows[i].source.v,
              score |-> <<outcome.rows[i].score, 1>>]])

\* ----------------------------------------------------------- search_vortex
\* max_results "not given" (None)
NotGiven == 0 - 1

search_vortex(c, dir, outcome, query, max_results) ==
    LET m == IF max_results = NotGiven \/ max_results = 0
             THEN c.max_chunks ELSE max_results
    IN  IF c.db_type = "mysql" THEN search_mysql(dir, outcome, query, m)
        ELSE IF c.db_type = "json_files" THEN search_json_files(dir, query, m)
        ELSE Returned(<<>>)

\* what the LIMIT of the SELECT will be, for choosing the database's answer
VortexLimit(c, max_results) ==
    IF max_results = NotGiven \/ max_results = 0 THEN c.max_chunks ELSE max_results

\* ----------------------------------------------------------- search_notion
\* A page of the Notion search response with what _get_page_content gives
\* for it ("" when the blocks request failed or the page has no text).
Page(title, content) == [title |-> title, content |-> content]

NotionPageSets ==
    { <<>>,
      <<Page("Visa", <<"gamma", "gamma">>)>>,
      <<Page("Visa", <<"gamma">>), Page("Lost", <<>>), Page("", <<"alpha">>)>> }

NotionOutcomes ==
    {[kind |-> "import_error", pages |-> <<>>], [kind |-> "error", pages |-> <<>>]}
    \cup {[kind |-> "pages", pages |-> ps] : ps \in NotionPageSets}

RECURSIVE NotionResults(_)
NotionResults(pages) ==
    IF pages = <<>> THEN <<>>
    ELSE LET page == Head(pages)
         IN  (IF page.content # <<>>
              THEN << [content |-> page.content,
                       source |-> IF page.title # "" THEN "Notion: " \o page.title
                                  ELSE "Notion"] >>
              ELSE <<>>) \o NotionResults(Tail(pages))

NOTION_DEFAULT_MAX == 5

search_notion(c, outcome, query, max_results) ==
    LET m == IF max_results = NotGiven THEN NOTION_DEFAULT_MAX ELSE max_results
    IN  IF c.notion = "disabled" THEN Returned(<<>>)
        ELSE IF c.notion = "unconfigured" THEN Returned(<<>>)
        ELSE IF outcome.kind \in {"import_error", "error"} THEN Returned(<<>>)
        ELSE Returned(Take(NotionResults(outcome.pages), m))

\* -------------------------------------------------------- retrieve_context
Pending == [st |-> "pending", val |-> <<>>]
NotStarted == [st |-> "none", val |-> <<>>]
Finished(r) == [st |-> IF r.ok THEN "done" ELSE "raised", val |-> r.val]

\* (mutant) supplementary chunks first
MergeChunksNotionFirst(vortex_results, notion_results) == notion_results \o vortex_results

\* all_chunks = vortex_results + notion_results
MergeChunks(vortex_results, notion_results) == vortex_results \o notion_results

\* (mutant) the searches one after the other: search_notion is not started
\* while search_vortex is awaited
retrieve_context_call_sequential ==
    /\ rpc = "idle"
    /\ \E q \in Queries : rq' = q
    /\ rpc' = "gather"
    /\ vortex_task' = Pending
    /\ notion_task' = NotStarted
    /\ UNCHANGED <<cfg, corpus, all_chunks, unit, completed, prvars, avars, pvars>>

\* lines 22-25: both coroutines are created and handed to asyncio.gather
retrieve_context_call ==
    /\ rpc = "idle"
    /\ \E q \in Queries : rq' = q
    /\ rpc' = "gather"
    /\ vortex_task' = Pending
    /\ notion_task' = Pending
    /\ UNCHANGED <<cfg, corpus, all_chunks, unit, completed, prvars, avars, pvars>>

\* the search_vortex task runs to its end
search_vortex_task ==
    /\ rpc = "gather"
    /\ vortex_task.st = "pending"
    /\ \E outcome \in MysqlOutcomes(VortexLimit(cfg, NotGiven)) :
          vortex_task' = Finished(search_vortex(cfg, corpus, outcome, rq, NotGiven))
    /\ completed' = Append(completed, "vortex")
    /\ UNCHANGED <<cfg, corpus, rpc, rq, notion_task, all_chunks, unit, prvars, avars, pvars>>

\* the search_notion task runs to its end
search_notion_task ==
    /\ rpc \in {"gather", "raised"}
    /\ notion_task.st = "pending"
    /\ \E outcome \in NotionOutcomes :
          notion_task' = Finished(search_notion(cfg, outcome, rq, NotGiven))
    /\ completed' = Append(completed, "notion")
    /\ UNCHANGED <<cfg, corpus, rpc, rq, vortex_task, all_chunks, unit, prvars, avars, pvars>>

\* lines 25-31: gather gives both results, in argument order; merge and return
retrieve_context_return ==
    /\ rpc = "gather"
    /\ vortex_task.st = "done"
    /\ notion_task.st = "done"
    /\ all_chunks' = MergeChunks(vortex_task.val, notion_task.val)
    /\ rpc' = "returned"
    /\ UNCHANGED <<cfg, corpus, rq, vortex_task, notion_task, unit, completed, prvars, avars, pvars>>

\* line 25: gather re-raises the first exception of a task to its awaiter
retrieve_context_raise ==
    /\ rpc = "gather"
    /\ vortex_task.st = "raised" \/ notion_task.st = "raised"
    /\ rpc' = "raised"
    /\ UNCHANGED <<cfg, corpus, rq, vortex_task, notion_task, all_chunks, unit, completed, prvars, avars, pvars>>

\* ------------------------------------------------------ direct adapter calls
NoCall == [fn |-> "none", query |-> <<>>, max_results |-> 0, out |-> Returned(<<>>)]

call_search_json_files ==
    /\ unit.fn = "none"
    /\ \E q \in Queries, m \in 0..MaxResults :
          unit' = [fn |-> "_search_json_files", query |-> q, max_results |-> m,
                   out |-> search_json_files(corpus, q, m)]
    /\ UNCHANGED <<cfg, corpus, rpc, rq, vortex_task, notion_task, all_chunks, completed, prvars, avars, pvars>>

\* max_results of a direct call: not given, or 0..MaxResults
MaxResultsArgs == {NotGiven} \cup (0..MaxResults)

call_search_vortex ==
    /\ unit.fn = "none"
    /\ \E q \in Queries, m \in MaxResultsArgs :
          \E outcome \in MysqlOutcomes(VortexLimit(cfg, m)) :
              unit' = [fn |-> "search_vortex", query |-> q, max_results |-> m,
                       out |-> search_vortex(cfg, corpus, outcome, q, m)]
    /\ UNCHANGED <<cfg, corpus, rpc, rq, vortex_task, notion_task, all_chunks, completed, prvars, avars, pvars>>

call_search_notion ==
    /\ unit.fn = "none"
    /\ \E q \in Queries, m \in MaxResultsArgs :
          \E outcome \in NotionOutcomes :
              unit' = [fn |-> "search_notion", query |-> q, max_results |-> m,
                       out |-> search_notion(cfg, outcome, q, m)]
    /\ UNCHANGED <<cfg, corpus, rpc, rq, vortex_task, notion_task, all_chunks, completed, prvars, avars, pvars>>

\* ====================================================================
\* Prompt composer (backend/rag/prompts.py)
\* ====================================================================
\* A prompt is kept as the sequence of its pieces: the fixed template text
\* before and after {context}, one piece per document entry, and the
\* separator pieces between entries.
NO_CONTEXT_SYSTEM_PROMPT == <<[piece |-> "NO_CONTEXT_SYSTEM_PROMPT"]>>
TemplateHead == [piece |-> "THAI_LEGAL_SYSTEM_PROMPT up to {context}"]
TemplateTail == [piece |-> "THAI_LEGAL_SYSTEM_PROMPT after {context}"]
Separator == [piece |-> "\n\n---\n\n"]

\* f"[Document {i}] (Source: {source})\n{content}"
DocumentEntry(i, source, content) ==
    [piece |-> "[Document " \o ToString(i) \o "] (Source: " \o source \o ")\n",
     content |-> content]

\* chunk.get(key, default)
Get(chunk, key, default) == IF key \in DOMAIN chunk THEN chunk[key] ELSE default

\* (mutant) enumerate(context_chunks) without the start index 1
RECURSIVE ContextPartsFromZero(_, _)
ContextPartsFromZero(chunks, i) ==
    IF chunks = <<>> THEN <<>>
    ELSE <<DocumentEntry(i - 1, Get(Head(chunks), "source", "Unknown"),
                         Get(Head(chunks), "content", <<>>))>>
         \o ContextPartsFromZero(Tail(chunks), i + 1)

\* for i, chunk in enumerate(context_chunks, 1): context_parts.append(...)
RECURSIVE ContextParts(_, _)
ContextParts(chunks, i) ==
    IF chunks = <<>> THEN <<>>
    ELSE <<DocumentEntry(i, Get(Head(chunks), "source", "Unknown"),
                         Get(Head(chunks), "content", <<>>))>>
         \o ContextParts(Tail(chunks), i + 1)

\* sep.join(parts)
RECURSIVE Join(_, _)
Join(parts, sep) ==
    IF parts = <<>> THEN <<>>
    ELSE IF Len(parts) = 1 THEN parts
    ELSE <<Head(parts), sep>> \o Join(Tail(parts), sep)

build_system_prompt(chunks) ==
    IF chunks = <<>> THEN NO_CONTEXT_SYSTEM_PROMPT
    ELSE <<TemplateHead>> \o Join(ContextParts(chunks, 1), Separator) \o <<TemplateTail>>

\* chunk dicts as the adapters build them, and dicts lacking a key
PromptChunkSet ==
    { [content |-> <<"alpha", "beta">>, source |-> "Doc1", score |-> <<1, 2>>],
      [content |-> <<"gamma">>, source |-> "Notion: Visa"],
      [content |-> <<"zzz">>],
      [source |-> "Doc3"] }

call_build_system_prompt ==
    /\ prompt = <<>>
    /\ prompt' = build_system_prompt(context_chunks)
    /\ UNCHANGED <<rvars, context_chunks, avars, pvars>>

PromptIdle == context_chunks = <<>> /\ prompt = <<>>

\* ====================================================================
\* Rank aggregation (calculate_aggregate_rankings, backend/council.py)
\* ====================================================================
\* the static worker roster, in configuration order
Roster == [i \in 1..NumWorkers |-> "M" \o ToString(i)]

RosterIndex(m) == CHOOSE i \in 1..NumWorkers : Roster[i] = m

LabelLetters == <<"A", "B", "C", "D", "E", "F">>
Label(i) == "Response " \o LabelLetters[i]

\* the models of a set of roster positions, in roster order
RECURSIVE InRosterOrder(_, _)
InRosterOrder(S, i) ==
    IF i > NumWorkers THEN <<>>
    ELSE (IF i \in S THEN <<Roster[i]>> ELSE <<>>) \o InRosterOrder(S, i + 1)

\* Stage 2 setup: sequential labels for the non-error responses, roster order
LabelToModel(okset) ==
    LET ms == InRosterOrder(okset, 1)
    IN  [l \in {Label(i) : i \in 1..Len(ms)} |->
            ms[CHOOSE i \in 1..Len(ms) : Label(i) = l]]

\* points of one ranking: position k of N labels gives N - k + 1
RECURSIVE AddRanking(_, _, _, _)
AddRanking(points, ranking, k, l2m) ==
    IF k > Len(ranking) THEN points
    ELSE LET m == l2m[ranking[k]]
         IN  AddRanking([points EXCEPT ![m] = @ + (Len(ranking) - k + 1)],
                        ranking, k + 1, l2m)

RECURSIVE SumRankings(_, _, _)
SumRankings(points, rankings, l2m) ==
    IF rankings = <<>> THEN points
    ELSE SumRankings(AddRanking(points, Head(rankings).parsed_ranking, 1, l2m),
                     Tail(rankings), l2m)

\* (mutant) ties broken the other way round
RECURSIVE InsertByTotalTiesLast(_, _)
InsertByTotalTiesLast(sorted, x) ==
    IF sorted = <<>> THEN <<x>>
    ELSE IF Head(sorted).score > x.score
         THEN <<Head(sorted)>> \o InsertByTotalTiesLast(Tail(sorted), x)
         ELSE <<x>> \o sorted

\* stable descending sort by total
RECURSIVE InsertByTotal(_, _)
InsertByTotal(sorted, x) ==
    IF sorted = <<>> THEN <<x>>
    ELSE IF Head(sorted).score >= x.score
         THEN <<Head(sorted)>> \o InsertByTotal(Tail(sorted), x)
         ELSE <<x>> \o sorted

RECURSIVE SortByTotal(_)
SortByTotal(s) ==
    IF s = <<>> THEN <<>>
    ELSE InsertByTotal(SortByTotal(SubSeq(s, 1, Len(s) - 1)), s[Len(s)])

calculate_aggregate_rankings(rankings, l2m) ==
    LET models == {l2m[l] : l \in DOMAIN l2m}
        points == SumRankings([m \in models |-> 0], rankings, l2m)
        inroster == InRosterOrder({RosterIndex(m) : m \in models}, 1)
    IN  SortByTotal([i \in 1..Len(inroster) |->
                        [model |-> inroster[i], score |-> points[inroster[i]]]])

\* every total order of a set, as sequences
TotalOrders(S) ==
    {p \in [1..Cardinality(S) -> S] : \A i, j \in 1..Cardinality(S) : i # j => p[i] # p[j]}

\* the rankings of a set of judges (each a total order of all labels), in
\* roster order of the judges
RECURSIVE RankingsOf(_, _, _)
RankingsOf(judges, choice, i) ==
    IF i > NumWorkers THEN <<>>
    ELSE (IF i \in judges
          THEN <<[model |-> Roster[i], parsed_ranking |-> choice[i]]>>
          ELSE <<>>) \o RankingsOf(judges, choice, i + 1)

\* the judges that returned a ranking are taken as the first ones of the
\* answering workers: the aggregation reads the rankings, not who gave them
Stage2Inputs(okset) ==
    LET labels == DOMAIN LabelToModel(okset)
    IN  UNION { {RankingsOf(J, choice, 1) : choice \in [J -> TotalOrders(labels)]} :
                J \in {K \in SUBSET okset :
                          /\ Cardinality(K) <= MaxJudges
                          /\ \A i \in okset, j \in K : i < j => i \in K} }

call_calculate_aggregate_rankings ==
    /\ ~aggregate.done
    /\ aggregate' = [done |-> TRUE,
                     val |-> calculate_aggregate_rankings(stage2_results, label_to_model)]
    /\ UNCHANGED <<rvars, prvars, stage2_results, label_to_model, pvars>>

AggregateIdle ==
    /\ stage2_results = <<>>
    /\ label_to_model = <<>>
    /\ aggregate = [done |-> FALSE, val |-> <<>>]

\* ====================================================================
\* The chat endpoints (backend/main.py) and the council they drive
\* ====================================================================
Workers == 1..NumWorkers

\* message texts, character by character
Messages == SeqsUpTo({" ", "q"}, MaxMsgLen)

\* str.strip()
RECURSIVE LStrip(_)
LStrip(m) == IF m # <<>> /\ Head(m) = " " THEN LStrip(Tail(m)) ELSE m

RECURSIVE RStrip(_)
RStrip(m) == IF m # <<>> /\ m[Len(m)] = " " THEN RStrip(SubSeq(m, 1, Len(m) - 1)) ELSE m

Strip(m) == RStrip(LStrip(m))

\* no stage function has been called yet
NotCalled == [f \in {"stage1", "stage2", "stage3"} |-> {}]

\* the stage function f is called with the arguments named in args
Called(ca, f, args) == [ca EXCEPT ![f] = args]

\* Stage 1 is over when every worker has answered or failed
Stage1Complete(s) == \A w \in Workers : s[w] \in {"ok", "error"}

\* Stage 2 is over when no judge request is outstanding
Stage2Complete(s) == \A w \in Workers : s[w] # "running"

\* the await the generator stands at has raised
AwaitRaised(at, r, c, t) ==
    \/ at = "await_rag" /\ r = "raised"
    \/ at = "await_s3" /\ c = "failed"
    \/ at \in {"y_stage3_complete", "await_title"} /\ t = "failed"

\* (mutant) an error event followed by the complete event all the same
StreamErrorThenComplete(evs) == evs \o <<"error", "complete">>

\* except Exception as e: yield the error event
StreamError(evs) == Append(evs, "error")

PipelineIdle ==
    /\ ep = "none"
    /\ req = [message |-> <<>>, key_ok |-> TRUE]
    /\ pc = "idle"
    /\ cpc = "idle"
    /\ response = "none"
    /\ events = <<>>
    /\ store_ops = <<>>
    /\ rag = "idle"
    /\ st1 = "idle"
    /\ s1 = [w \in Workers |-> "idle"]
    /\ st2 = "idle"
    /\ s2 = [w \in Workers |-> "idle"]
    /\ s3 = "idle"
    /\ title_task = "none"
    /\ is_first = FALSE
    /\ call_args = NotCalled

\* ---- the awaited collaborators

\* retrieve_and_build_messages returns (messages, context_chunks)
retrieve_and_build_messages_returns ==
    /\ rag = "running"
    /\ rag' = "done"
    /\ UNCHANGED <<ep, req, pc, cpc, response, events, messages, conv, store_ops, st1, s1, st2, s2, s3, title_task, is_first, call_args, rvars, prvars, avars>>

\* retrieve_context raised (a malformed corpus record, see SpecRetrieve) and
\* retrieve_and_build_messages lets it through
retrieve_and_build_messages_raises ==
    /\ rag = "running"
    /\ rag' = "raised"
    /\ UNCHANGED <<ep, req, pc, cpc, response, events, messages, conv, store_ops, st1, s1, st2, s2, s3, title_task, is_first, call_args, rvars, prvars, avars>>

\* Stage 1: one worker's request ends, with an answer or an error marker
stage1_worker ==
    \E w \in Workers, r \in {"ok", "error"} :
        /\ st1 = "running"
        /\ s1[w] = "running"
        /\ s1' = [s1 EXCEPT ![w] = r]
        /\ UNCHANGED <<ep, req, pc, cpc, response, events, messages, conv, store_ops, rag, st1, st2, s2, s3, title_task, is_first, call_args, rvars, prvars, avars>>

\* Stage 1 completes once every worker has answered or failed
stage1_collect_responses_returns ==
    /\ st1 = "running"
    /\ Stage1Complete(s1)
    /\ st1' = "done"
    /\ UNCHANGED <<ep, req, pc, cpc, response, events, messages, conv, store_ops, rag, s1, st2, s2, s3, title_task, is_first, call_args, rvars, prvars, avars>>

\* Stage 2: one judge's request ends, with a ranking or a malformed one
stage2_judge ==
    \E w \in Workers, r \in {"ok", "malformed"} :
        /\ st2 = "running"
        /\ s2[w] = "running"
        /\ s2' = [s2 EXCEPT ![w] = r]
        /\ UNCHANGED <<ep, req, pc, cpc, response, events, messages, conv, store_ops, rag, st1, s1, st2, s3, title_task, is_first, call_args, rvars, prvars, avars>>

\* Stage 2 completes once every judge has answered or failed
stage2_collect_rankings_returns ==
    /\ st2 = "running"
    /\ Stage2Complete(s2)
    /\ st2' = "done"
    /\ UNCHANGED <<ep, req, pc, cpc, response, events, messages, conv, store_ops, rag, st1, s1, s2, s3, title_task, is_first, call_args, rvars, prvars, avars>>

\* Stage 3: the chairman call gives the final answer
stage3_chairman_answers ==
    /\ s3 = "running"
    /\ s3' = "ok"
    /\ UNCHANGED <<ep, req, pc, cpc, response, events, messages, conv, store_ops, rag, st1, s1, st2, s2, title_task, is_first, call_args, rvars, prvars, avars>>

\* Stage 3: the chairman call fails, which is fatal for the deliberation
stage3_chairman_fails ==
    /\ s3 = "running"
    /\ s3' = "failed"
    /\ UNCHANGED <<ep, req, pc, cpc, response, events, messages, conv, store_ops, rag, st1, s1, st2, s2, title_task, is_first, call_args, rvars, prvars, avars>>

\* generate_conversation_title returns a title
generate_conversation_title_returns ==
    /\ title_task = "running"
    /\ title_task' = "ok"
    /\ UNCHANGED <<ep, req, pc, cpc, response, events, messages, conv, store_ops, rag, st1, s1, st2, s2, s3, is_first, call_args, rvars, prvars, avars>>

\* generate_conversation_title fails
generate_conversation_title_raises ==
    /\ title_task = "running"
    /\ title_task' = "failed"
    /\ UNCHANGED <<ep, req, pc, cpc, response, events, messages, conv, store_ops, rag, st1, s1, st2, s2, s3, is_first, call_args, rvars, prvars, avars>>

\* ---- run_full_council (Deliberation Orchestrator)

\* Stage 1 has returned: Stage 2 is started on its responses
run_full_council_stage2 ==
    /\ cpc = "stage1"
    /\ st1 = "done"
    /\ \E w \in Workers : s1[w] = "ok"
    /\ cpc' = "stage2"
    /\ st2' = "running"
    /\ call_args' = Called(call_args, "stage2", {"user_query", "messages", "stage1_results"})
    /\ s2' = [w \in Workers |-> IF s1[w] = "ok" THEN "running" ELSE "idle"]
    /\ UNCHANGED <<ep, req, pc, response, events, messages, conv, store_ops, rag, st1, s1, s3, title_task, is_first, rvars, prvars, avars>>

\* every worker failed Stage 1: Stage 2 is not invoked and the deliberation
\* fails explicitly
run_full_council_all_failed ==
    /\ cpc = "stage1"
    /\ st1 = "done"
    /\ \A w \in Workers : s1[w] = "error"
    /\ cpc' = "raised"
    /\ UNCHANGED <<ep, req, pc, response, events, messages, conv, store_ops, rag, st1, s1, st2, s2, s3, title_task, is_first, call_args, rvars, prvars, avars>>

\* Stage 2 has returned: aggregation, then Stage 3 is started
run_full_council_stage3 ==
    /\ cpc = "stage2"
    /\ st2 = "done"
    /\ cpc' = "stage3"
    /\ s3' = "running"
    /\ call_args' = Called(call_args, "stage3", {"user_query", "messages", "stage1_results", "stage2_results"})
    /\ UNCHANGED <<ep, req, pc, response, events, messages, conv, store_ops, rag, st1, s1, st2, s2, title_task, is_first, rvars, prvars, avars>>

\* Stage 3 has returned: (stage1, stage2, stage3, metadata) go to the caller
run_full_council_returns ==
    /\ cpc = "stage3"
    /\ s3 = "ok"
    /\ cpc' = "returned"
    /\ UNCHANGED <<ep, req, pc, response, events, messages, conv, store_ops, rag, st1, s1, st2, s2, s3, title_task, is_first, call_args, rvars, prvars, avars>>

\* the chairman failure leaves run_full_council as an exception
run_full_council_raises ==
    /\ cpc = "stage3"
    /\ s3 = "failed"
    /\ cpc' = "raised"
    /\ UNCHANGED <<ep, req, pc, response, events, messages, conv, store_ops, rag, st1, s1, st2, s2, s3, title_task, is_first, call_args, rvars, prvars, avars>>

\* ---- POST /api/chat

\* ChatRequest.message has min_length=1: the framework answers 422
wordpress_chat_invalid ==
    \E m \in Messages, k \in BOOLEAN :
        /\ ep = "none"
        /\ Len(m) < 1
        /\ ep' = "wordpress_chat"
        /\ req' = [message |-> m, key_ok |-> k]
        /\ pc' = "done"
        /\ response' = "422"
        /\ UNCHANGED <<cpc, events, messages, conv, store_ops, rag, st1, s1, st2, s2, s3, title_task, is_first, call_args, rvars, prvars, avars>>

\* validate_api_key raises 401
wordpress_chat_unauthorized ==
    \E m \in Messages, k \in BOOLEAN :
        /\ ep = "none"
        /\ Len(m) >= 1
        /\ ~k
        /\ ep' = "wordpress_chat"
        /\ req' = [message |-> m, key_ok |-> k]
        /\ pc' = "done"
        /\ response' = "401"
        /\ UNCHANGED <<cpc, events, messages, conv, store_ops, rag, st1, s1, st2, s2, s3, title_task, is_first, call_args, rvars, prvars, avars>>

\* body.message.strip() is empty: 400 Message cannot be empty
wordpress_chat_empty ==
    \E m \in Messages, k \in BOOLEAN :
        /\ ep = "none"
        /\ Len(m) >= 1
        /\ k
        /\ Strip(m) = <<>>
        /\ ep' = "wordpress_chat"
        /\ req' = [message |-> m, key_ok |-> k]
        /\ pc' = "done"
        /\ response' = "400"
        /\ UNCHANGED <<cpc, events, messages, conv, store_ops, rag, st1, s1, st2, s2, s3, title_task, is_first, call_args, rvars, prvars, avars>>

\* lines 91-103: the conversation is created if missing, the user message is
\* stored and retrieval is awaited
wordpress_chat_accepted ==
    \E m \in Messages, k \in BOOLEAN :
        /\ ep = "none"
        /\ Len(m) >= 1
        /\ k
        /\ Strip(m) # <<>>
        /\ ep' = "wordpress_chat"
        /\ req' = [message |-> m, key_ok |-> k]
        /\ pc' = "await_rag"
        /\ messages' = Append(messages, "user")
        /\ conv' = TRUE
        /\ store_ops' = store_ops \o (IF conv THEN <<>> ELSE <<"create_conversation">>) \o <<"add_user_message">>
        /\ rag' = "running"
        /\ UNCHANGED <<cpc, response, events, st1, s1, st2, s2, s3, title_task, is_first, call_args, rvars, prvars, avars>>

\* line 103: the exception leaves the handler
wordpress_chat_retrieval_raised ==
    /\ ep = "wordpress_chat"
    /\ pc = "await_rag"
    /\ rag = "raised"
    /\ pc' = "done"
    /\ response' = "500"
    /\ UNCHANGED <<ep, req, cpc, events, messages, conv, store_ops, rag, st1, s1, st2, s2, s3, title_task, is_first, call_args, rvars, prvars, avars>>

\* lines 106-108: run_full_council is awaited; it starts Stage 1
wordpress_chat_council ==
    /\ ep = "wordpress_chat"
    /\ pc = "await_rag"
    /\ rag = "done"
    /\ pc' = "await_council"
    /\ cpc' = "stage1"
    /\ st1' = "running"
    /\ call_args' = Called(call_args, "stage1", {"user_query", "messages"})
    /\ s1' = [w \in Workers |-> "running"]
    /\ UNCHANGED <<ep, req, response, events, messages, conv, store_ops, rag, st2, s2, s3, title_task, is_first, rvars, prvars, avars>>

\* (mutant) the chairman failure is swallowed and a ChatResponse built from
\* the Stage 1 and Stage 2 results is returned
wordpress_chat_council_degraded ==
    /\ ep = "wordpress_chat"
    /\ pc = "await_council"
    /\ cpc = "raised"
    /\ pc' = "done"
    /\ response' = "200"
    /\ UNCHANGED <<ep, req, cpc, events, messages, conv, store_ops, rag, st1, s1, st2, s2, s3, title_task, is_first, call_args, rvars, prvars, avars>>

\* line 106: the exception leaves the handler
wordpress_chat_council_raised ==
    /\ ep = "wordpress_chat"
    /\ pc = "await_council"
    /\ cpc = "raised"
    /\ pc' = "done"
    /\ response' = "500"
    /\ UNCHANGED <<ep, req, cpc, events, messages, conv, store_ops, rag, st1, s1, st2, s2, s3, title_task, is_first, call_args, rvars, prvars, avars>>

\* lines 111-134: the assistant message is stored and the ChatResponse returned
wordpress_chat_respond ==
    /\ ep = "wordpress_chat"
    /\ pc = "await_council"
    /\ cpc = "returned"
    /\ pc' = "done"
    /\ response' = "200"
    /\ messages' = Append(messages, "assistant")
    /\ store_ops' = store_ops \o <<"add_assistant_message">>
    /\ UNCHANGED <<ep, req, cpc, events, conv, rag, st1, s1, st2, s2, s3, title_task, is_first, call_args, rvars, prvars, avars>>

\* ---- POST /api/chat/stream

\* ChatRequest.message has min_length=1: the framework answers 422
wordpress_chat_stream_invalid ==
    \E m \in Messages, k \in BOOLEAN :
        /\ ep = "none"
        /\ Len(m) < 1
        /\ ep' = "wordpress_chat_stream"
        /\ req' = [message |-> m, key_ok |-> k]
        /\ pc' = "done"
        /\ response' = "422"
        /\ UNCHANGED <<cpc, events, messages, conv, store_ops, rag, st1, s1, st2, s2, s3, title_task, is_first, call_args, rvars, prvars, avars>>

\* validate_api_key raises 401
wordpress_chat_stream_unauthorized ==
    \E m \in Messages, k \in BOOLEAN :
        /\ ep = "none"
        /\ Len(m) >= 1
        /\ ~k
        /\ ep' = "wordpress_chat_stream"
        /\ req' = [message |-> m, key_ok |-> k]
        /\ pc' = "done"
        /\ response' = "401"
        /\ UNCHANGED <<cpc, events, messages, conv, store_ops, rag, st1, s1, st2, s2, s3, title_task, is_first, call_args, rvars, prvars, avars>>

\* body.message.strip() is empty: 400 Message cannot be empty
wordpress_chat_stream_empty ==
    \E m \in Messages, k \in BOOLEAN :
        /\ ep = "none"
        /\ Len(m) >= 1
        /\ k
        /\ Strip(m) = <<>>
        /\ ep' = "wordpress_chat_stream"
        /\ req' = [message |-> m, key_ok |-> k]
        /\ pc' = "done"
        /\ response' = "400"
        /\ UNCHANGED <<cpc, events, messages, conv, store_ops, rag, st1, s1, st2, s2, s3, title_task, is_first, call_args, rvars, prvars, avars>>

\* lines 151-196: the conversation is created if missing and the
\* StreamingResponse over event_generator() is returned
wordpress_chat_stream_accepted ==
    \E m \in Messages, k \in BOOLEAN :
        /\ ep = "none"
        /\ Len(m) >= 1
        /\ k
        /\ Strip(m) # <<>>
        /\ ep' = "wordpress_chat_stream"
        /\ req' = [message |-> m, key_ok |-> k]
        /\ pc' = "gen_start"
        /\ response' = "stream"
        /\ conv' = TRUE
        /\ store_ops' = store_ops \o (IF conv THEN <<>> ELSE <<"create_conversation">>)
        /\ UNCHANGED <<cpc, events, messages, rag, st1, s1, st2, s2, s3, title_task, is_first, call_args, rvars, prvars, avars>>

\* lines 159-162: store the user message, yield the retrieval status
wordpress_chat_stream_gen_start ==
    /\ ep = "wordpress_chat_stream"
    /\ pc = "gen_start"
    /\ pc' = "y_retrieving"
    /\ events' = events \o <<"status:retrieving">>
    /\ messages' = Append(messages, "user")
    /\ store_ops' = store_ops \o <<"add_user_message">>
    /\ UNCHANGED <<ep, req, cpc, response, conv, rag, st1, s1, st2, s2, s3, title_task, is_first, call_args, rvars, prvars, avars>>

\* line 163: await retrieve_and_build_messages
wordpress_chat_stream_retrieve ==
    /\ ep = "wordpress_chat_stream"
    /\ pc = "y_retrieving"
    /\ pc' = "await_rag"
    /\ rag' = "running"
    /\ UNCHANGED <<ep, req, cpc, response, events, messages, conv, store_ops, st1, s1, st2, s2, s3, title_task, is_first, call_args, rvars, prvars, avars>>

\* line 166
wordpress_chat_stream_retrieved ==
    /\ ep = "wordpress_chat_stream"
    /\ pc = "await_rag"
    /\ rag = "done"
    /\ pc' = "y_consulting"
    /\ events' = events \o <<"status:consulting">>
    /\ UNCHANGED <<ep, req, cpc, response, messages, conv, store_ops, rag, st1, s1, st2, s2, s3, title_task, is_first, call_args, rvars, prvars, avars>>

\* line 167: await stage1_collect_responses
wordpress_chat_stream_stage1 ==
    /\ ep = "wordpress_chat_stream"
    /\ pc = "y_consulting"
    /\ pc' = "await_s1"
    /\ st1' = "running"
    /\ call_args' = Called(call_args, "stage1", {"user_query", "messages"})
    /\ s1' = [w \in Workers |-> "running"]
    /\ UNCHANGED <<ep, req, cpc, response, events, messages, conv, store_ops, rag, st2, s2, s3, title_task, is_first, rvars, prvars, avars>>

\* (mutant) the generator goes on without waiting for Stage 1 to return
wordpress_chat_stream_stage1_not_awaited ==
    /\ ep = "wordpress_chat_stream"
    /\ pc = "await_s1"
    /\ pc' = "y_stage1_complete"
    /\ events' = events \o <<"stage1_complete">>
    /\ UNCHANGED <<ep, req, cpc, response, messages, conv, store_ops, rag, st1, s1, st2, s2, s3, title_task, is_first, call_args, rvars, prvars, avars>>

\* line 168
wordpress_chat_stream_stage1_complete ==
    /\ ep = "wordpress_chat_stream"
    /\ pc = "await_s1"
    /\ st1 = "done"
    /\ pc' = "y_stage1_complete"
    /\ events' = events \o <<"stage1_complete">>
    /\ UNCHANGED <<ep, req, cpc, response, messages, conv, store_ops, rag, st1, s1, st2, s2, s3, title_task, is_first, call_args, rvars, prvars, avars>>

\* line 171
wordpress_chat_stream_evaluating ==
    /\ ep = "wordpress_chat_stream"
    /\ pc = "y_stage1_complete"
    /\ pc' = "y_evaluating"
    /\ events' = events \o <<"status:evaluating">>
    /\ UNCHANGED <<ep, req, cpc, response, messages, conv, store_ops, rag, st1, s1, st2, s2, s3, title_task, is_first, call_args, rvars, prvars, avars>>

\* line 172: await stage2_collect_rankings
wordpress_chat_stream_stage2 ==
    /\ ep = "wordpress_chat_stream"
    /\ pc = "y_evaluating"
    /\ pc' = "await_s2"
    /\ st2' = "running"
    /\ call_args' = Called(call_args, "stage2", {"user_query", "stage1_results"})
    /\ s2' = [w \in Workers |-> IF s1[w] = "ok" THEN "running" ELSE "idle"]
    /\ UNCHANGED <<ep, req, cpc, response, events, messages, conv, store_ops, rag, st1, s1, s3, title_task, is_first, rvars, prvars, avars>>

\* line 173
wordpress_chat_stream_stage2_complete ==
    /\ ep = "wordpress_chat_stream"
    /\ pc = "await_s2"
    /\ st2 = "done"
    /\ pc' = "y_stage2_complete"
    /\ events' = events \o <<"stage2_complete">>
    /\ UNCHANGED <<ep, req, cpc, response, messages, conv, store_ops, rag, st1, s1, st2, s2, s3, title_task, is_first, call_args, rvars, prvars, avars>>

\* line 176
wordpress_chat_stream_synthesizing ==
    /\ ep = "wordpress_chat_stream"
    /\ pc = "y_stage2_complete"
    /\ pc' = "y_synthesizing"
    /\ events' = events \o <<"status:synthesizing">>
    /\ UNCHANGED <<ep, req, cpc, response, messages, conv, store_ops, rag, st1, s1, st2, s2, s3, title_task, is_first, call_args, rvars, prvars, avars>>

\* line 177: await stage3_synthesize_final
wordpress_chat_stream_stage3 ==
    /\ ep = "wordpress_chat_stream"
    /\ pc = "y_synthesizing"
    /\ pc' = "await_s3"
    /\ s3' = "running"
    /\ call_args' = Called(call_args, "stage3", {"user_query", "stage1_results", "stage2_results"})
    /\ UNCHANGED <<ep, req, cpc, response, events, messages, conv, store_ops, rag, st1, s1, st2, s2, title_task, is_first, rvars, prvars, avars>>

\* lines 180-187: store the assistant message, yield the complete event
\* (with the answer); no stage3_complete event is yielded
wordpress_chat_stream_complete ==
    /\ ep = "wordpress_chat_stream"
    /\ pc = "await_s3"
    /\ s3 = "ok"
    /\ pc' = "done"
    /\ events' = events \o <<"complete">>
    /\ messages' = Append(messages, "assistant")
    /\ store_ops' = store_ops \o <<"add_assistant_message">>
    /\ UNCHANGED <<ep, req, cpc, response, conv, rag, st1, s1, st2, s2, s3, title_task, is_first, call_args, rvars, prvars, avars>>

\* lines 189-190: except Exception: yield the error event and end
wordpress_chat_stream_error ==
    /\ ep = "wordpress_chat_stream"
    /\ pc \in {"await_rag", "await_s3"}
    /\ AwaitRaised(pc, rag, s3, title_task)
    /\ pc' = "done"
    /\ events' = StreamError(events)
    /\ UNCHANGED <<ep, req, cpc, response, messages, conv, store_ops, rag, st1, s1, st2, s2, s3, title_task, is_first, call_args, rvars, prvars, avars>>

\* ---- POST /api/conversations/{id}/message

\* lines 239-241: no such conversation
send_message_not_found ==
    \E m \in Messages :
        /\ ep = "none"
        /\ ~conv
        /\ ep' = "send_message"
        /\ req' = [message |-> m, key_ok |-> TRUE]
        /\ pc' = "done"
        /\ response' = "404"
        /\ UNCHANGED <<cpc, events, messages, conv, store_ops, rag, st1, s1, st2, s2, s3, title_task, is_first, call_args, rvars, prvars, avars>>

\* lines 243-247: the first message: store it, await the title
send_message_first ==
    \E m \in Messages :
        /\ ep = "none"
        /\ conv
        /\ messages = <<>>
        /\ ep' = "send_message"
        /\ req' = [message |-> m, key_ok |-> TRUE]
        /\ pc' = "await_title"
        /\ messages' = Append(messages, "user")
        /\ store_ops' = store_ops \o <<"add_user_message">>
        /\ title_task' = "running"
        /\ is_first' = TRUE
        /\ UNCHANGED <<cpc, response, events, conv, rag, st1, s1, st2, s2, s3, call_args, rvars, prvars, avars>>

\* lines 243-251: a later message: store it, await retrieval
send_message_later ==
    \E m \in Messages :
        /\ ep = "none"
        /\ conv
        /\ messages # <<>>
        /\ ep' = "send_message"
        /\ req' = [message |-> m, key_ok |-> TRUE]
        /\ pc' = "await_rag"
        /\ messages' = Append(messages, "user")
        /\ store_ops' = store_ops \o <<"add_user_message">>
        /\ rag' = "running"
        /\ is_first' = FALSE
        /\ UNCHANGED <<cpc, response, events, conv, st1, s1, st2, s2, s3, title_task, call_args, rvars, prvars, avars>>

\* lines 248-251: store the title, await retrieval
send_message_titled ==
    /\ ep = "send_message"
    /\ pc = "await_title"
    /\ title_task = "ok"
    /\ pc' = "await_rag"
    /\ store_ops' = store_ops \o <<"update_conversation_title">>
    /\ rag' = "running"
    /\ UNCHANGED <<ep, req, cpc, response, events, messages, conv, st1, s1, st2, s2, s3, title_task, is_first, call_args, rvars, prvars, avars>>

\* line 247: the exception leaves the handler
send_message_title_raised ==
    /\ ep = "send_message"
    /\ pc = "await_title"
    /\ title_task = "failed"
    /\ pc' = "done"
    /\ response' = "500"
    /\ UNCHANGED <<ep, req, cpc, events, messages, conv, store_ops, rag, st1, s1, st2, s2, s3, title_task, is_first, call_args, rvars, prvars, avars>>

\* line 251: the exception leaves the handler
send_message_retrieval_raised ==
    /\ ep = "send_message"
    /\ pc = "await_rag"
    /\ rag = "raised"
    /\ pc' = "done"
    /\ response' = "500"
    /\ UNCHANGED <<ep, req, cpc, events, messages, conv, store_ops, rag, st1, s1, st2, s2, s3, title_task, is_first, call_args, rvars, prvars, avars>>

\* lines 252-254: run_full_council is awaited; it starts Stage 1
send_message_council ==
    /\ ep = "send_message"
    /\ pc = "await_rag"
    /\ rag = "done"
    /\ pc' = "await_council"
    /\ cpc' = "stage1"
    /\ st1' = "running"
    /\ call_args' = Called(call_args, "stage1", {"user_query", "messages"})
    /\ s1' = [w \in Workers |-> "running"]
    /\ UNCHANGED <<ep, req, response, events, messages, conv, store_ops, rag, st2, s2, s3, title_task, is_first, rvars, prvars, avars>>

\* (mutant) the failed deliberation is stored as an assistant message
send_message_council_raised_stored ==
    /\ ep = "send_message"
    /\ pc = "await_council"
    /\ cpc = "raised"
    /\ pc' = "done"
    /\ response' = "500"
    /\ messages' = Append(messages, "assistant")
    /\ store_ops' = store_ops \o <<"add_assistant_message">>
    /\ UNCHANGED <<ep, req, cpc, events, conv, rag, st1, s1, st2, s2, s3, title_task, is_first, call_args, rvars, prvars, avars>>

\* line 252: the exception leaves the handler
send_message_council_raised ==
    /\ ep = "send_message"
    /\ pc = "await_council"
    /\ cpc = "raised"
    /\ pc' = "done"
    /\ response' = "500"
    /\ UNCHANGED <<ep, req, cpc, events, messages, conv, store_ops, rag, st1, s1, st2, s2, s3, title_task, is_first, call_args, rvars, prvars, avars>>

\* lines 256-263: the assistant message is stored and the stages returned
send_message_respond ==
    /\ ep = "send_message"
    /\ pc = "await_council"
    /\ cpc = "returned"
    /\ pc' = "done"
    /\ response' = "200"
    /\ messages' = Append(messages, "assistant")
    /\ store_ops' = store_ops \o <<"add_assistant_message">>
    /\ UNCHANGED <<ep, req, cpc, events, conv, rag, st1, s1, st2, s2, s3, title_task, is_first, call_args, rvars, prvars, avars>>

\* ---- POST /api/conversations/{id}/message/stream

\* lines 268-270: no such conversation
send_message_stream_not_found ==
    \E m \in Messages :
        /\ ep = "none"
        /\ ~conv
        /\ ep' = "send_message_stream"
        /\ req' = [message |-> m, key_ok |-> TRUE]
        /\ pc' = "done"
        /\ response' = "404"
        /\ UNCHANGED <<cpc, events, messages, conv, store_ops, rag, st1, s1, st2, s2, s3, title_task, is_first, call_args, rvars, prvars, avars>>

\* lines 272-318: is_first_message is taken and the StreamingResponse over
\* event_generator() is returned
send_message_stream_accepted ==
    \E m \in Messages :
        /\ ep = "none"
        /\ conv
        /\ ep' = "send_message_stream"
        /\ req' = [message |-> m, key_ok |-> TRUE]
        /\ pc' = "gen_start"
        /\ response' = "stream"
        /\ is_first' = (messages = <<>>)
        /\ UNCHANGED <<cpc, events, messages, conv, store_ops, rag, st1, s1, st2, s2, s3, title_task, call_args, rvars, prvars, avars>>

\* lines 276-283: store the user message, start the title task on the first
\* message, yield rag_start
send_message_stream_gen_start ==
    /\ ep = "send_message_stream"
    /\ pc = "gen_start"
    /\ pc' = "y_rag_start"
    /\ events' = events \o <<"rag_start">>
    /\ messages' = Append(messages, "user")
    /\ store_ops' = store_ops \o <<"add_user_message">>
    /\ title_task' = IF is_first THEN "running" ELSE "none"
    /\ UNCHANGED <<ep, req, cpc, response, conv, rag, st1, s1, st2, s2, s3, is_first, call_args, rvars, prvars, avars>>

\* line 284: await retrieve_and_build_messages
send_message_stream_retrieve ==
    /\ ep = "send_message_stream"
    /\ pc = "y_rag_start"
    /\ pc' = "await_rag"
    /\ rag' = "running"
    /\ UNCHANGED <<ep, req, cpc, response, events, messages, conv, store_ops, st1, s1, st2, s2, s3, title_task, is_first, call_args, rvars, prvars, avars>>

\* line 285
send_message_stream_rag_complete ==
    /\ ep = "send_message_stream"
    /\ pc = "await_rag"
    /\ rag = "done"
    /\ pc' = "y_rag_complete"
    /\ events' = events \o <<"rag_complete">>
    /\ UNCHANGED <<ep, req, cpc, response, messages, conv, store_ops, rag, st1, s1, st2, s2, s3, title_task, is_first, call_args, rvars, prvars, avars>>

\* line 288
send_message_stream_stage1_start ==
    /\ ep = "send_message_stream"
    /\ pc = "y_rag_complete"
    /\ pc' = "y_stage1_start"
    /\ events' = events \o <<"stage1_start">>
    /\ UNCHANGED <<ep, req, cpc, response, messages, conv, store_ops, rag, st1, s1, st2, s2, s3, title_task, is_first, call_args, rvars, prvars, avars>>

\* line 289: await stage1_collect_responses
send_message_stream_stage1 ==
    /\ ep = "send_message_stream"
    /\ pc = "y_stage1_start"
    /\ pc' = "await_s1"
    /\ st1' = "running"
    /\ call_args' = Called(call_args, "stage1", {"user_query", "messages"})
    /\ s1' = [w \in Workers |-> "running"]
    /\ UNCHANGED <<ep, req, cpc, response, events, messages, conv, store_ops, rag, st2, s2, s3, title_task, is_first, rvars, prvars, avars>>

\* line 290
send_message_stream_stage1_complete ==
    /\ ep = "send_message_stream"
    /\ pc = "await_s1"
    /\ st1 = "done"
    /\ pc' = "y_stage1_complete"
    /\ events' = events \o <<"stage1_complete">>
    /\ UNCHANGED <<ep, req, cpc, response, messages, conv, store_ops, rag, st1, s1, st2, s2, s3, title_task, is_first, call_args, rvars, prvars, avars>>

\* line 293
send_message_stream_stage2_start ==
    /\ ep = "send_message_stream"
    /\ pc = "y_stage1_complete"
    /\ pc' = "y_stage2_start"
    /\ events' = events \o <<"stage2_start">>
    /\ UNCHANGED <<ep, req, cpc, response, messages, conv, store_ops, rag, st1, s1, st2, s2, s3, title_task, is_first, call_args, rvars, prvars, avars>>

\* line 294: await stage2_collect_rankings
send_message_stream_stage2 ==
    /\ ep = "send_message_stream"
    /\ pc = "y_stage2_start"
    /\ pc' = "await_s2"
    /\ st2' = "running"
    /\ call_args' = Called(call_args, "stage2", {"user_query", "stage1_results"})
    /\ s2' = [w \in Workers |-> IF s1[w] = "ok" THEN "running" ELSE "idle"]
    /\ UNCHANGED <<ep, req, cpc, response, events, messages, conv, store_ops, rag, st1, s1, s3, title_task, is_first, rvars, prvars, avars>>

\* lines 295-296: aggregate the rankings (for the event's metadata), yield
\* stage2_complete
send_message_stream_stage2_complete ==
    /\ ep = "send_message_stream"
    /\ pc = "await_s2"
    /\ st2 = "done"
    /\ pc' = "y_stage2_complete"
    /\ events' = events \o <<"stage2_complete">>
    /\ UNCHANGED <<ep, req, cpc, response, messages, conv, store_ops, rag, st1, s1, st2, s2, s3, title_task, is_first, call_args, rvars, prvars, avars>>

\* line 299
send_message_stream_stage3_start ==
    /\ ep = "send_message_stream"
    /\ pc = "y_stage2_complete"
    /\ pc' = "y_stage3_start"
    /\ events' = events \o <<"stage3_start">>
    /\ UNCHANGED <<ep, req, cpc, response, messages, conv, store_ops, rag, st1, s1, st2, s2, s3, title_task, is_first, call_args, rvars, prvars, avars>>

\* line 300: await stage3_synthesize_final
send_message_stream_stage3 ==
    /\ ep = "send_message_stream"
    /\ pc = "y_stage3_start"
    /\ pc' = "await_s3"
    /\ s3' = "running"
    /\ call_args' = Called(call_args, "stage3", {"user_query", "stage1_results", "stage2_results"})
    /\ UNCHANGED <<ep, req, cpc, response, events, messages, conv, store_ops, rag, st1, s1, st2, s2, title_task, is_first, rvars, prvars, avars>>

\* line 301
send_message_stream_stage3_complete ==
    /\ ep = "send_message_stream"
    /\ pc = "await_s3"
    /\ s3 = "ok"
    /\ pc' = "y_stage3_complete"
    /\ events' = events \o <<"stage3_complete">>
    /\ UNCHANGED <<ep, req, cpc, response, messages, conv, store_ops, rag, st1, s1, st2, s2, s3, title_task, is_first, call_args, rvars, prvars, avars>>

\* lines 303-304: the title task has not finished: wait for it
send_message_stream_await_title ==
    /\ ep = "send_message_stream"
    /\ pc = "y_stage3_complete"
    /\ title_task = "running"
    /\ pc' = "await_title"
    /\ UNCHANGED <<ep, req, cpc, response, events, messages, conv, store_ops, rag, st1, s1, st2, s2, s3, title_task, is_first, call_args, rvars, prvars, avars>>

\* lines 304-306: store the title, yield title_complete
send_message_stream_title_complete ==
    /\ ep = "send_message_stream"
    /\ pc \in {"y_stage3_complete", "await_title"}
    /\ title_task = "ok"
    /\ pc' = "y_title_complete"
    /\ events' = events \o <<"title_complete">>
    /\ store_ops' = store_ops \o <<"update_conversation_title">>
    /\ UNCHANGED <<ep, req, cpc, response, messages, conv, rag, st1, s1, st2, s2, s3, title_task, is_first, call_args, rvars, prvars, avars>>

\* lines 308-309: store the assistant message, yield complete
send_message_stream_complete ==
    /\ ep = "send_message_stream"
    /\ (pc = "y_title_complete" \/ (pc = "y_stage3_complete" /\ title_task = "none"))
    /\ pc' = "done"
    /\ events' = events \o <<"complete">>
    /\ messages' = Append(messages, "assistant")
    /\ store_ops' = store_ops \o <<"add_assistant_message">>
    /\ UNCHANGED <<ep, req, cpc, response, conv, rag, st1, s1, st2, s2, s3, title_task, is_first, call_args, rvars, prvars, avars>>

\* lines 311-312: except Exception: yield the error event and end
send_message_stream_error ==
    /\ ep = "send_message_stream"
    /\ pc \in {"await_rag", "await_s3", "y_stage3_complete", "await_title"}
    /\ AwaitRaised(pc, rag, s3, title_task)
    /\ pc' = "done"
    /\ events' = StreamError(events)
    /\ UNCHANGED <<ep, req, cpc, response, messages, conv, store_ops, rag, st1, s1, st2, s2, s3, title_task, is_first, call_args, rvars, prvars, avars>>

\* ----------------------------------------------------------- specifications
Configs ==
    [db_type : {"mysql", "json_files", "sqlite"},
     notion : {"disabled", "unconfigured", "enabled"},
     max_chunks : {2, 10}]

RetrievalIdle ==
    /\ rpc = "idle"
    /\ rq = <<>>
    /\ vortex_task = NotStarted
    /\ notion_task = NotStarted
    /\ all_chunks = <<>>
    /\ unit = NoCall
    /\ completed = <<>>

PipelineUnused == PipelineIdle /\ conv = FALSE /\ messages = <<>>

InitSearch ==
    /\ cfg = [db_type |-> "json_files", notion |-> "disabled", max_chunks |-> 10]
    /\ corpus \in Corpora
    /\ RetrievalIdle
    /\ PromptIdle
    /\ AggregateIdle
    /\ PipelineUnused

NextSearch == call_search_json_files

SpecSearch == InitSearch /\ [][NextSearch]_vars

InitRetrieve ==
    /\ cfg \in Configs
    /\ corpus \in {c \in Corpora : Len(c.files) <= 1}
    /\ RetrievalIdle
    /\ PromptIdle
    /\ AggregateIdle
    /\ PipelineUnused

NextRetrieve ==
    \/ retrieve_context_call
    \/ search_vortex_task
    \/ search_notion_task
    \/ retrieve_context_return
    \/ retrieve_context_raise

SpecRetrieve == InitRetrieve /\ [][NextRetrieve]_vars

InitAdapters ==
    /\ cfg \in Configs
    /\ corpus \in {c \in Corpora : Len(c.files) <= 1}
    /\ RetrievalIdle
    /\ PromptIdle
    /\ AggregateIdle
    /\ PipelineUnused

NextAdapters == call_search_vortex \/ call_search_notion

SpecAdapters == InitAdapters /\ [][NextAdapters]_vars

RetrievalUnused ==
    /\ cfg = [db_type |-> "json_files", notion |-> "disabled", max_chunks |-> 10]
    /\ corpus = [exists |-> FALSE, files |-> <<>>]
    /\ RetrievalIdle

InitPrompt ==
    /\ RetrievalUnused
    /\ AggregateIdle
    /\ PipelineUnused
    /\ context_chunks \in SeqsUpTo(PromptChunkSet, MaxPromptChunks)
    /\ prompt = <<>>

NextPrompt == call_build_system_prompt

SpecPrompt == InitPrompt /\ [][NextPrompt]_vars

InitAggregate ==
    /\ RetrievalUnused
    /\ PromptIdle
    /\ PipelineUnused
    /\ \E okset \in SUBSET (1..NumWorkers) :
          /\ okset # {}
          /\ label_to_model = LabelToModel(okset)
          /\ stage2_results \in Stage2Inputs(okset)
    /\ aggregate = [done |-> FALSE, val |-> <<>>]

NextAggregate == call_calculate_aggregate_rankings

SpecAggregate == InitAggregate /\ [][NextAggregate]_vars

wordpress_chat ==
    \/ wordpress_chat_invalid
    \/ wordpress_chat_unauthorized
    \/ wordpress_chat_empty
    \/ wordpress_chat_accepted
    \/ wordpress_chat_retrieval_raised
    \/ wordpress_chat_council
    \/ wordpress_chat_council_raised
    \/ wordpress_chat_respond

wordpress_chat_stream ==
    \/ wordpress_chat_stream_invalid
    \/ wordpress_chat_stream_unauthorized
    \/ wordpress_chat_stream_empty
    \/ wordpress_chat_stream_accepted
    \/ wordpress_chat_stream_gen_start
    \/ wordpress_chat_stream_retrieve
    \/ wordpress_chat_stream_retrieved
    \/ wordpress_chat_stream_stage1
    \/ wordpress_chat_stream_stage1_complete
    \/ wordpress_chat_stream_evaluating
    \/ wordpress_chat_stream_stage2
    \/ wordpress_chat_stream_stage2_complete
    \/ wordpress_chat_stream_synthesizing
    \/ wordpress_chat_stream_stage3
    \/ wordpress_chat_stream_complete
    \/ wordpress_chat_stream_error

send_message ==
    \/ send_message_not_found
    \/ send_message_first
    \/ send_message_later
    \/ send_message_titled
    \/ send_message_title_raised
    \/ send_message_retrieval_raised
    \/ send_message_council
    \/ send_message_council_raised
    \/ send_message_respond

send_message_stream ==
    \/ send_message_stream_not_found
    \/ send_message_stream_accepted
    \/ send_message_stream_gen_start
    \/ send_message_stream_retrieve
    \/ send_message_stream_rag_complete
    \/ send_message_stream_stage1_start
    \/ send_message_stream_stage1
    \/ send_message_stream_stage1_complete
    \/ send_message_stream_stage2_start
    \/ send_message_stream_stage2
    \/ send_message_stream_stage2_complete
    \/ send_message_stream_stage3_start
    \/ send_message_stream_stage3
    \/ send_message_stream_stage3_complete
    \/ send_message_stream_await_title
    \/ send_message_stream_title_complete
    \/ send_message_stream_complete
    \/ send_message_stream_error

council ==
    \/ retrieve_and_build_messages_returns
    \/ retrieve_and_build_messages_raises
    \/ stage1_worker
    \/ stage1_collect_responses_returns
    \/ stage2_judge
    \/ stage2_collect_rankings_returns
    \/ stage3_chairman_answers
    \/ stage3_chairman_fails
    \/ generate_conversation_title_returns
    \/ generate_conversation_title_raises
    \/ run_full_council_stage2
    \/ run_full_council_all_failed
    \/ run_full_council_stage3
    \/ run_full_council_returns
    \/ run_full_council_raises

Init ==
    /\ RetrievalUnused
    /\ PromptIdle
    /\ AggregateIdle
    /\ PipelineIdle
    /\ conv \in BOOLEAN
    /\ messages \in (IF conv THEN {<<>>, <<"user", "assistant">>} ELSE {<<>>})

Next ==
    \/ wordpress_chat
    \/ wordpress_chat_stream
    \/ send_message
    \/ send_message_stream
    \/ council

Spec == Init /\ [][Next]_vars

\* ======================================================================
\* Claims on the retrieval layer
\* ======================================================================

\* C1: the chunk sequence retrieve_context returns is the primary adapter's
\* result sequence, in its order, followed by the supplementary adapter's
\* result sequence, in its order: nothing dropped, duplicated or re-ranked.
C1_MergeOrder ==
    rpc = "returned" =>
        LET v == vortex_task.val
            n == notion_task.val
        IN  /\ Len(all_chunks) = Len(v) + Len(n)
            /\ \A i \in 1..Len(v) : all_chunks[i] = v[i]
            /\ \A j \in 1..Len(n) : all_chunks[Len(v) + j] = n[j]

C1_Witness ==
    /\ rpc = "returned"
    /\ Len(vortex_task.val) >= 2
    /\ Len(notion_task.val) >= 2

\* C7: adapter failure is soft: neither adapter search ever raises, so
\* retrieve_context never raises either.
C7_AdapterFailureSoft ==
    /\ vortex_task.st # "raised"
    /\ notion_task.st # "raised"
    /\ rpc # "raised"

\* The candidates of a search in first-encountered order: the values of every
\* readable file, with the file's stem.
RECURSIVE ReadableRecords(_)
ReadableRecords(files) ==
    IF files = <<>> THEN <<>>
    ELSE LET f == Head(files)
             here == IF f.kind = "obj" THEN <<[rec |-> f.data, stem |-> f.stem]>>
                     ELSE IF f.kind = "list"
                     THEN [i \in 1..Len(f.data) |-> [rec |-> f.data[i], stem |-> f.stem]]
                     ELSE <<>>
         IN  here \o ReadableRecords(Tail(files))

Candidates(dir) == IF dir.exists THEN ReadableRecords(dir.files) ELSE <<>>

WordSet(r) == IF r.isdict /\ r.content.t = "str" THEN Tokenize(r.content.v) ELSE {}

OverlapOf(E, q, i) == Cardinality(WordSet(E[i].rec) \cap Tokenize(q))

Matching(E, q) == {i \in 1..Len(E) : OverlapOf(E, q, i) > 0}

\* j is ranked before i: a higher score, or the same score and met earlier
RankedBefore(E, q, j, i) ==
    \/ OverlapOf(E, q, j) > OverlapOf(E, q, i)
    \/ OverlapOf(E, q, j) = OverlapOf(E, q, i) /\ j < i

RankOf(E, q, i) == 1 + Cardinality({j \in Matching(E, q) : RankedBefore(E, q, j, i)})

ExpectedChunk(E, q, i) ==
    [content |-> E[i].rec.content.v,
     source |-> IF E[i].rec.source.t = "missing" THEN E[i].stem ELSE E[i].rec.source.v,
     score |-> <<OverlapOf(E, q, i), Cardinality(Tokenize(q))>>]

FullRanking(E, q) ==
    [k \in 1..Cardinality(Matching(E, q)) |->
        ExpectedChunk(E, q, CHOOSE i \in Matching(E, q) : RankOf(E, q, i) = k)]

C9_PromptOfChunks ==
    prompt # <<>> =>
        LET n == Len(context_chunks)
        IN  IF n = 0 THEN prompt = <<[piece |-> "NO_CONTEXT_SYSTEM_PROMPT"]>>
            ELSE /\ Len(prompt) = 2 * n + 1
                 /\ prompt[1] = TemplateHead
                 /\ prompt[1] # prompt[2 * n + 1]
                 /\ prompt[2 * n + 1] = TemplateTail
                 /\ \A i \in 1..n :
                      LET c == context_chunks[i]
                      IN  /\ prompt[2 * i].piece =
                                "[Document " \o ToString(i) \o "] (Source: "
                                \o (IF "source" \in DOMAIN c THEN c.source ELSE "Unknown")
                                \o ")\n"
                          /\ prompt[2 * i].content =
                                (IF "content" \in DOMAIN c THEN c.content ELSE <<>>)
                 /\ \A i \in 1..(n - 1) : prompt[2 * i + 1] = [piece |-> "\n\n---\n\n"]

\* three chunks composed, the second one without a source label
C9_Witness ==
    /\ Len(context_chunks) = 3
    /\ "source" \notin DOMAIN context_chunks[2]
    /\ "source" \in DOMAIN context_chunks[3]
    /\ Len(prompt) = 7

\* the Borda points of model m in one ranking, and over all rankings
PointsIn(ranking, l2m, m) ==
    LET K == {k \in 1..Len(ranking) : l2m[ranking[k]] = m}
    IN  IF K = {} THEN 0 ELSE Len(ranking) - (CHOOSE k \in K : TRUE) + 1

RECURSIVE PointsOf(_, _, _)
PointsOf(rankings, l2m, m) ==
    IF rankings = <<>> THEN 0
    ELSE PointsIn(Head(rankings).parsed_ranking, l2m, m) + PointsOf(Tail(rankings), l2m, m)

\* C10: aggregate returns one entry per ranked model, scored with the sum over
\* all rankings of N - k + 1 for position k of N labels, sorted by descending
\* total, ties in roster order; two workers ranked symmetrically by two judges
\* tie and M1 comes first.
C10_BordaAggregate ==
    aggregate.done =>
        LET out == aggregate.val
            ranked == {label_to_model[stage2_results[r].parsed_ranking[k]] :
                          r \in 1..Len(stage2_results),
                          k \in 1..Cardinality(DOMAIN label_to_model)}
        IN  /\ \A m \in ranked : Cardinality({i \in 1..Len(out) : out[i].model = m}) = 1
            /\ \A i, j \in 1..Len(out) : i # j => out[i].model # out[j].model
            /\ \A i \in 1..Len(out) :
                  /\ out[i].model \in {label_to_model[l] : l \in DOMAIN label_to_model}
                  /\ out[i].score = PointsOf(stage2_results, label_to_model, out[i].model)
            /\ \A i, j \in 1..Len(out) :
                  i < j => \/ out[i].score > out[j].score
                           \/ /\ out[i].score = out[j].score
                              /\ RosterIndex(out[i].model) < RosterIndex(out[j].model)
            /\ (/\ label_to_model = [l \in {"Response A", "Response B"} |->
                                        IF l = "Response A" THEN "M1" ELSE "M2"]
                /\ stage2_results =
                     << [model |-> "M1", parsed_ranking |-> <<"Response A", "Response B">>],
                        [model |-> "M2", parsed_ranking |-> <<"Response B", "Response A">>] >>)
               => out = <<[model |-> "M1", score |-> 3], [model |-> "M2", score |-> 3]>>

\* the symmetric two-worker, two-judge deliberation, aggregated
C10_Witness ==
    /\ aggregate.done
    /\ Len(stage2_results) = 2
    /\ stage2_results[1].parsed_ranking = <<"Response A", "Response B">>
    /\ stage2_results[2].parsed_ranking = <<"Response B", "Response A">>
    /\ aggregate.val[1].model = "M1"
    /\ aggregate.val[1].score = aggregate.val[2].score

\* ======================================================================
\* Claims on the chat endpoints
\* ======================================================================
Range(seq) == {seq[i] : i \in 1..Len(seq)}

Last(seq) == seq[Len(seq)]

\* C2: in every deliberation retrieval has completed before Stage 1 starts,
\* Stage 1 has completed for every worker before Stage 2 starts (and only
\* finished responses are judged), and Stage 2 has completed before Stage 3
\* starts: no stage is started while an earlier one is in flight.
C2_StrictStageOrder ==
    /\ st1 # "idle" => rag = "done"
    /\ \A w \in Workers : s1[w] # "idle" => st1 # "idle"
    /\ st2 # "idle" => st1 = "done" /\ \A w \in Workers : s1[w] \in {"ok", "error"}
    /\ \A w \in Workers : s2[w] # "idle" => st2 # "idle" /\ s1[w] = "ok"
    /\ s3 # "idle" => st2 = "done" /\ \A w \in Workers : s2[w] # "running"

\* a deliberation of the non-streaming widget endpoint that ran all three
\* stages, with a worker that failed Stage 1 and a judge that ranked
C2_Witness ==
    /\ ep = "wordpress_chat"
    /\ s3 = "ok"
    /\ \E w \in Workers : s1[w] = "error"
    /\ \E w \in Workers : s2[w] = "ok"

\* the five progress events of the caller boundary, as each endpoint names them
Milestones(e) ==
    IF e = "wordpress_chat_stream"
    THEN <<"status:retrieving", "stage1_complete", "stage2_complete",
           "stage3_complete", "complete">>
    ELSE <<"rag_start", "stage1_complete", "stage2_complete",
           "stage3_complete", "complete">>

IsMilestone(e) ==
    e \in {"status:retrieving", "rag_start", "stage1_complete", "stage2_complete",
           "stage3_complete", "complete"}

\* C3: a stream on which no step failed carries retrieval-status,
\* stage1-complete, stage2-complete, stage3-complete and done, each once and
\* in this order, each stage's complete event after the stage has finished
\* and before the next stage starts; on both streaming endpoints.
C3_StreamEventOrder ==
    response = "stream" =>
        /\ (pc = "done" /\ "error" \notin Range(events))
              => SelectSeq(events, IsMilestone) = Milestones(ep)
        /\ "stage1_complete" \in Range(events) => st1 = "done"
        /\ st2 # "idle" => "stage1_complete" \in Range(events)
        /\ "stage2_complete" \in Range(events) => st2 = "done"
        /\ s3 # "idle" => "stage2_complete" \in Range(events)
        /\ "stage3_complete" \in Range(events) => s3 = "ok"

\* the same statement for send_message_stream alone (it holds there)
C3_SendMessageStreamOnly == ep = "send_message_stream" => C3_StreamEventOrder

Terminal(e) == e \in {"complete", "error"}

\* C4: a stream carries at most one terminal event (complete or error), it is
\* the last event, and every ended stream has one; an error event stands at
\* the point of the failure: nothing is in flight, no later stage was started
\* and nothing follows it.
C4_OneTerminalEvent ==
    response = "stream" =>
        /\ Cardinality({i \in 1..Len(events) : Terminal(events[i])}) <= 1
        /\ \A i \in 1..Len(events) : Terminal(events[i]) => i = Len(events) /\ pc = "done"
        /\ pc = "done" => events # <<>> /\ Terminal(Last(events))
        /\ "error" \in Range(events) =>
              /\ rag = "raised" \/ s3 = "failed" \/ title_task = "failed"
              /\ rag # "running" /\ st1 # "running" /\ st2 # "running" /\ s3 # "running"
              /\ rag = "raised" => st1 = "idle" /\ st2 = "idle" /\ s3 = "idle"
              /\ st1 = "idle" => "stage1_complete" \notin Range(events)
              /\ st2 = "idle" => "stage2_complete" \notin Range(events)
              /\ s3 # "ok" => "stage3_complete" \notin Range(events)

\* a stream that ended with the error event after Stage 2 had been reported
C4_Witness ==
    /\ response = "stream"
    /\ pc = "done"
    /\ "stage2_complete" \in Range(events)
    /\ Last(events) = "error"

\* C5: when the chairman call fails after Stage 1 and Stage 2, the caller gets
\* an explicit error (an HTTP 500, or the stream's error event) and no final
\* answer: no ChatResponse, no complete or stage3_complete event, and no
\* assistant message is stored.
C5_ChairmanFailureIsExplicit ==
    s3 = "failed" =>
        /\ response # "200"
        /\ "complete" \notin Range(events)
        /\ "stage3_complete" \notin Range(events)
        /\ "add_assistant_message" \notin Range(store_ops)
        /\ pc = "done" =>
              \/ response = "500"
              \/ response = "stream" /\ Last(events) = "error"

\* the chairman failed after a worker answered and a judge ranked, and the
\* request has been answered
C5_Witness ==
    /\ s3 = "failed"
    /\ pc = "done"
    /\ ep = "wordpress_chat"
    /\ \E w \in Workers : s1[w] = "ok" /\ s2[w] = "ok"

\* C6: a request whose text is empty or whitespace-only is rejected with an
\* explicit error before anything runs, on every endpoint: no store write, no
\* retrieval, no stage call.
C6_EmptyQueryRejected ==
    (ep # "none" /\ Strip(req.message) = <<>>) =>
        /\ store_ops = <<>>
        /\ rag = "idle"
        /\ st1 = "idle" /\ st2 = "idle" /\ s3 = "idle"
        /\ pc = "done" => response \in {"400", "401", "404", "422"}

\* the same statement for the two widget endpoints alone (it holds there)
C6_WidgetEndpointsOnly ==
    ep \in {"wordpress_chat", "wordpress_chat_stream"} => C6_EmptyQueryRejected

\* every worker of the deliberation has failed Stage 1
AllWorkersFailed == st1 = "done" /\ \A w \in Workers : s1[w] = "error"

\* C11: when all worker models fail Stage 1, Stage 2 is not invoked in that
\* deliberation: the Stage 2 call is not made, no judge request is issued, no
\* ranking is produced and no Stage 2 progress is reported, on the streaming
\* and the non-streaming entry points alike.
C11_NoStage2WhenAllFailed ==
    AllWorkersFailed =>
        /\ st2 = "idle"
        /\ \A w \in Workers : s2[w] = "idle"
        /\ "stage2_complete" \notin Range(events)

\* the same statement for the two non-streaming endpoints alone (it holds there)
C11_NonStreamingOnly ==
    ep \in {"wordpress_chat", "send_message"} => C11_NoStage2WhenAllFailed

\* C12: within one deliberation every model call (the Stage 1 worker calls,
\* the Stage 2 judge calls and the Stage 3 chairman call) is given the
\* grounding messages that retrieve_and_build_messages built for the query.
C12_GroundingInEveryCall ==
    /\ st1 # "idle" => rag = "done" /\ "messages" \in call_args["stage1"]
    /\ st2 # "idle" => rag = "done" /\ "messages" \in call_args["stage2"]
    /\ s3 # "idle" => rag = "done" /\ "messages" \in call_args["stage3"]

\* the same statement for Stage 1 alone (it holds there)
C12_GroundingInStage1 ==
    st1 # "idle" => rag = "done" /\ "messages" \in call_args["stage1"]

\* C13: within one retrieve_context call both adapter searches are started
\* before either has finished (while one is pending or over, the other has
\* been started too), retrieve_context returns only after both have
\* finished, and what it returns is the primary result followed by the
\* supplementary one whichever of the two finished first.
C13_ConcurrentSearches ==
    /\ vortex_task.st # "none" <=> notion_task.st # "none"
    /\ rpc = "gather" => vortex_task.st # "none" /\ notion_task.st # "none"
    /\ Len(completed) <= 2
    /\ "vortex" \in Range(completed) <=> vortex_task.st \in {"done", "raised"}
    /\ "notion" \in Range(completed) <=> notion_task.st \in {"done", "raised"}
    /\ rpc = "returned" =>
          /\ vortex_task.st = "done" /\ notion_task.st = "done"
          /\ Range(completed) = {"vortex", "notion"}
          /\ all_chunks = vortex_task.val \o notion_task.val

\* the supplementary search finished first, both found chunks, and
\* retrieve_context has returned
C13_Witness ==
    /\ rpc = "returned"
    /\ completed = <<"notion", "vortex">>
    /\ vortex_task.val # <<>>
    /\ notion_task.val # <<>>

\* the most chunks a direct adapter call may return: its max_results, or
\* the adapter's default when max_results is not given
AdapterLimit(u) ==
    IF u.max_results # NotGiven THEN u.max_results
    ELSE IF u.fn = "search_vortex" THEN cfg.max_chunks ELSE NOTION_DEFAULT_MAX

\* C14: for every query and every max_results >= 0, max_results = 0 included,
\* search_vortex and search_notion each return at most max_results chunks,
\* and at most VORTEX_MAX_CHUNKS and 5 when max_results is not given.
C14_AtMostMaxResults ==
    (unit.fn \in {"search_vortex", "search_notion"} /\ unit.out.ok) =>
        Len(unit.out.val) <= AdapterLimit(unit)

\* the same statement for max_results >= 1 or not given (it holds there)
C14_PositiveOrNotGiven ==
    unit.max_results # 0 => C14_AtMostMaxResults

\* the same statement for search_notion alone (it holds there)
C14_NotionOnly ==
    unit.fn = "search_notion" => C14_AtMostMaxResults

\* how often the request has made the storage call op
Count(op) == Cardinality({i \in 1..Len(store_ops) : store_ops[i] = op})

\* the request has failed: retrieval, a stage, the council or the title raised
RequestFailed ==
    /\ pc = "done"
    /\ \/ rag = "raised"
       \/ s3 = "failed"
       \/ cpc = "raised"
       \/ title_task = "failed"

\* C15: on every chat endpoint the user message is appended to the
\* conversation log before retrieval starts; an assistant message is appended
\* at most once, after the user message and only after Stage 3 has returned a
\* result; a request on which retrieval or a stage failed leaves the log with
\* the appended user message last and no assistant message.
C15_ConversationLog ==
    /\ Count("add_user_message") <= 1
    /\ Count("add_assistant_message") <= 1
    /\ rag # "idle" =>
          Count("add_user_message") = 1 /\ "user" \in Range(messages)
    /\ Count("add_assistant_message") = 1 =>
          /\ s3 = "ok"
          /\ store_ops[Len(store_ops)] = "add_assistant_message"
          /\ Count("add_user_message") = 1
          /\ Len(messages) >= 2
          /\ messages[Len(messages) - 1] = "user"
          /\ messages[Len(messages)] = "assistant"
    /\ (Count("add_user_message") = 1 /\ Count("add_assistant_message") = 0) =>
          Last(messages) = "user"
    /\ (RequestFailed /\ ep # "none") =>
          /\ Count("add_user_message") = 1
          /\ Count("add_assistant_message") = 0
          /\ Last(messages) = "user"

\* a streamed request on an existing conversation whose chairman call failed
\* after retrieval and both stages: the log ends with the user message
C15_Witness ==
    /\ ep = "send_message_stream"
    /\ pc = "done"
    /\ s3 = "failed"
    /\ messages = <<"user", "assistant", "user">>

=============================================================================
